---- MODULE Spec2Model ----
(***************************************************************************)
(* Water Sort solver (src/solver.py): the tube/puzzle state model, the     *)
(* pour validator and applier, the move prioritizer and the depth-bounded  *)
(* backtracking search.                                                    *)
(*                                                                         *)
(* Conventions.  A ColorSegment is a record [color, height]; a TubeState   *)
(* is a record [tube_index, segments, capacity_px] whose segments run from *)
(* top to bottom.  Tube positions are 1-based here (TLA+ sequences) and    *)
(* 0-based in the Python lists: position p here is index p-1 there.        *)
(* Heights are counted in units (one unit stands for a fixed number of     *)
(* pixels); the code only adds and compares them.                          *)
(***************************************************************************)
EXTENDS Integers, Sequences, FiniteSets, TLC

VARIABLES
    heap,            \* address -> TubeState: the live TubeState objects
    stack,           \* the dfs call stack, innermost call last
    ret,             \* value returned by the dfs call that returned last
    visited,         \* solve's visited set (serialized states)
    states_explored, \* solve's states_explored[0]
    initial,         \* the tubes solve was called on (values, for replay)
    max_depth,       \* solve's max_depth argument
    tubes,           \* pour exploration: the current puzzle state (values)
    last,            \* pour exploration: the call that produced tubes
    call             \* one call of a pure function: its inputs and output

vars == <<heap, stack, ret, visited, states_explored, initial, max_depth,
          tubes, last, call>>

solverVars == <<heap, stack, ret, visited, states_explored, initial, max_depth>>

(***************************************************************************)
(* Bounds of the model.                                                    *)
(***************************************************************************)
Capacity == 3        \* capacity of every tube, in units
MaxDepthArg == 5     \* solve's max_depth ranges over 0..MaxDepthArg
MaxSegs == 3         \* longest raw segment list (detector output, merge input)
MaxPlanLen == 3      \* longest move list handed to compute_execution_plan

Colors == {"red", "blue"}
EMPTY == "empty"
Labels == Colors \cup {EMPTY}

\* A level has one tube for each colour and one spare tube.
NumTubes == Cardinality(Colors) + 1
TubeIdx == 1..NumTubes

(***************************************************************************)
(* ColorSegment and TubeState.                                             *)
(***************************************************************************)
ColorSegment(c, h) == [color |-> c, height |-> h]

TubeState(i, segs, cap) == [tube_index |-> i, segments |-> segs, capacity_px |-> cap]

\* Python's None where a ColorSegment is expected.
None == [color |-> "None", height |-> 0]

RECURSIVE SumHeights(_)
SumHeights(segs) ==
    IF segs = <<>> THEN 0 ELSE Head(segs).height + SumHeights(Tail(segs))

IsLiquid(seg) == seg.color # EMPTY

\* Position of the first non-empty segment, 0 when there is none
\* (next((i for i, seg in enumerate(segments) if seg.color != 'empty'), None)).
FirstLiquidIdx(segs) ==
    IF \E i \in 1..Len(segs) : segs[i].color # EMPTY
    THEN CHOOSE i \in 1..Len(segs) :
            /\ segs[i].color # EMPTY
            /\ \A j \in 1..(i - 1) : segs[j].color = EMPTY
    ELSE 0

\* Position of the first 'empty' segment, 0 when there is none.
FirstEmptyIdx(segs) ==
    IF \E i \in 1..Len(segs) : segs[i].color = EMPTY
    THEN CHOOSE i \in 1..Len(segs) :
            /\ segs[i].color = EMPTY
            /\ \A j \in 1..(i - 1) : segs[j].color # EMPTY
    ELSE 0

RemoveAt(segs, i) == SubSeq(segs, 1, i - 1) \o SubSeq(segs, i + 1, Len(segs))

CurrentFillPx(tube) == SumHeights(SelectSeq(tube.segments, IsLiquid))

AvailableSpacePx(tube) ==
    LET e == FirstEmptyIdx(tube.segments)
    IN  IF e = 0 THEN 0 ELSE tube.segments[e].height

TopColor(tube) ==
    LET i == FirstLiquidIdx(tube.segments)
    IN  IF i = 0 THEN None ELSE tube.segments[i]

IsEmpty(tube) == \A i \in 1..Len(tube.segments) : tube.segments[i].color = EMPTY

\* Mutant of IsComplete: a tube holding one colour counts, however full.
IsCompleteAnyFill(tube) ==
    LET non_empty == SelectSeq(tube.segments, IsLiquid)
    IN  \A i \in 1..Len(non_empty) : non_empty[i].color = non_empty[1].color

IsComplete(tube) ==
    LET non_empty == SelectSeq(tube.segments, IsLiquid)
    IN  IF Len(non_empty) = 0 THEN TRUE
        ELSE IF ~(\A i \in 1..Len(non_empty) : non_empty[i].color = non_empty[1].color)
        THEN FALSE
        ELSE SumHeights(non_empty) = tube.capacity_px

RECURSIVE JoinStr(_, _)
JoinStr(strs, sep) ==
    IF strs = <<>> THEN ""
    ELSE IF Len(strs) = 1 THEN strs[1]
    ELSE strs[1] \o sep \o JoinStr(Tail(strs), sep)

SerializeTube(tube) ==
    ToString(tube.tube_index) \o ":" \o
    JoinStr([i \in 1..Len(tube.segments) |->
                tube.segments[i].color \o ":" \o ToString(tube.segments[i].height)],
            ",")

SerializeTubes(ts) == JoinStr([i \in 1..Len(ts) |-> SerializeTube(ts[i])], "|")

IsSolved(ts) == \A i \in 1..Len(ts) : IsComplete(ts[i])

(***************************************************************************)
(* can_pour and merge_consecutive_segments.                                *)
(***************************************************************************)
\* Mutant of CanPour: a pour that exactly fills the destination is refused.
CanPourStrict(from_tube, to_tube) ==
    LET from_color == TopColor(from_tube)
        to_color   == TopColor(to_tube)
    IN  IF from_color = None \/ from_color.color = EMPTY THEN FALSE
        ELSE IF AvailableSpacePx(to_tube) <= from_color.height THEN FALSE
        ELSE IF to_color = None THEN TRUE
        ELSE to_color.color = from_color.color

CanPour(from_tube, to_tube) ==
    LET from_color == TopColor(from_tube)
        to_color   == TopColor(to_tube)
    IN  IF from_color = None \/ from_color.color = EMPTY THEN FALSE
        ELSE IF AvailableSpacePx(to_tube) < from_color.height THEN FALSE
        ELSE IF to_color = None THEN TRUE
        ELSE to_color.color = from_color.color

\* Mutant of MergeInto: a merged segment keeps the first height of its run.
RECURSIVE MergeIntoFirstHeight(_, _)
MergeIntoFirstHeight(merged, rest) ==
    IF rest = <<>> THEN merged
    ELSE IF merged[Len(merged)].color = Head(rest).color
         THEN MergeIntoFirstHeight(merged, Tail(rest))
         ELSE MergeIntoFirstHeight(Append(merged, Head(rest)), Tail(rest))

RECURSIVE MergeInto(_, _)
MergeInto(merged, rest) ==
    IF rest = <<>> THEN merged
    ELSE LET seg == Head(rest)
             lastSeg == merged[Len(merged)]
         IN  IF lastSeg.color = seg.color
             THEN MergeInto([merged EXCEPT ![Len(merged)] =
                                ColorSegment(seg.color, lastSeg.height + seg.height)],
                            Tail(rest))
             ELSE MergeInto(Append(merged, seg), Tail(rest))

\* Mutant of MergeConsecutiveSegments: only the first two segments are merged.
MergeFirstPair(segments) ==
    IF Len(segments) >= 2 /\ segments[1].color = segments[2].color
    THEN <<ColorSegment(segments[1].color, segments[1].height + segments[2].height)>>
         \o SubSeq(segments, 3, Len(segments))
    ELSE segments

\* Mutant of MergeConsecutiveSegments: nothing is merged.
MergeNothing(segments) == segments

MergeConsecutiveSegments(segments) ==
    IF segments = <<>> THEN segments
    ELSE MergeInto(<<Head(segments)>>, Tail(segments))

(***************************************************************************)
(* PuzzleState.apply_move on tube values.  The statements of the code run  *)
(* in order on the copied list new_tubes: s1 is new_tubes after the source *)
(* was changed, s2 after the destination was changed, s3 and s4 after the  *)
(* two merges.  raised = TRUE stands for the ValueError.                   *)
(***************************************************************************)
\* Mutant of TakeTop: the freed space is not added to the source.
TakeTopNoSpace(segs, top_color) == RemoveAt(segs, FirstLiquidIdx(segs))

\* Mutant of TakeTop: every segment of the top colour is removed.
TakeTopAllOfColor(segs, top_color) ==
    LET Other(seg) == seg.color # top_color.color
    IN  <<ColorSegment(EMPTY, top_color.height)>> \o SelectSeq(segs, Other)

\* lines 176-184: pop the top colour segment, insert the empty space at 0.
TakeTop(segs, top_color) ==
    <<ColorSegment(EMPTY, top_color.height)>> \o RemoveAt(segs, FirstLiquidIdx(segs))

\* lines 188-196: reduce or remove the destination's first empty segment.
ShrinkEmpty(to_segs, top_color) ==
    LET empty_idx == FirstEmptyIdx(to_segs)
    IN  IF empty_idx # 0
        THEN IF to_segs[empty_idx].height > top_color.height
             THEN [to_segs EXCEPT ![empty_idx] =
                      ColorSegment(EMPTY, @.height - top_color.height)]
             ELSE RemoveAt(to_segs, empty_idx)
        ELSE to_segs

\* Mutant of AddPoured: a pour onto the same colour leaves that segment as high
\* as it was.
AddPouredSameHeight(to_segs, top_color) ==
    IF to_segs # <<>> /\ to_segs[1].color = top_color.color
    THEN to_segs
    ELSE <<ColorSegment(top_color.color, top_color.height)>> \o to_segs

\* lines 200-208: merge the poured colour into segment 0 or insert it at 0.
AddPoured(to_segs, top_color) ==
    IF to_segs # <<>> /\ to_segs[1].color = top_color.color
    THEN [to_segs EXCEPT ![1] =
             ColorSegment(top_color.color, @.height + top_color.height)]
    ELSE <<ColorSegment(top_color.color, top_color.height)>> \o to_segs

ApplyMove(ts, from_idx, to_idx) ==
    LET top_color == TopColor(ts[from_idx])
        top_idx   == FirstLiquidIdx(ts[from_idx].segments)
    IN  IF top_color = None \/ top_idx = 0
        THEN [raised |-> TRUE, tubes |-> ts]
        ELSE
        LET s1 == [ts EXCEPT ![from_idx].segments = TakeTop(@, top_color)]
            s2 == [s1 EXCEPT ![to_idx].segments =
                      AddPoured(ShrinkEmpty(@, top_color), top_color)]
            s3 == [s2 EXCEPT ![from_idx].segments = MergeConsecutiveSegments(@)]
            s4 == [s3 EXCEPT ![to_idx].segments = MergeConsecutiveSegments(@)]
        IN  [raised |-> FALSE, tubes |-> s4]

(***************************************************************************)
(* Objects.  A PuzzleState object holds a list of TubeState references     *)
(* (addresses into heap) and its cached _hash ("" stands for None).        *)
(***************************************************************************)
Deref(h, refs) == [i \in 1..Len(refs) |-> h[refs[i]]]

PuzzleState(refs) == [tubes |-> refs, hash |-> ""]

\* Mutant of DeepCopyTubes: the new list shares the TubeState objects.
ShallowCopyTubes(h, refs, base) == [heap |-> h, refs |-> refs]

\* Mutant of DeepCopyTubes: the copies come in the opposite order.
DeepCopyTubesReversed(h, refs, base) ==
    LET new_refs == [i \in 1..Len(refs) |-> base + i]
        fresh    == {base + i : i \in 1..Len(refs)}
    IN  [heap |-> [a \in DOMAIN h \cup fresh |->
                      IF a \in fresh THEN h[refs[Len(refs) + 1 - (a - base)]] ELSE h[a]],
         refs |-> new_refs]

\* deepcopy(self.tubes): fresh TubeState objects at base+1.., equal in value.
DeepCopyTubes(h, refs, base) ==
    LET new_refs == [i \in 1..Len(refs) |-> base + i]
        fresh    == {base + i : i \in 1..Len(refs)}
    IN  [heap |-> [a \in DOMAIN h \cup fresh |->
                      IF a \in fresh THEN h[refs[a - base]] ELSE h[a]],
         refs |-> new_refs]

\* apply_move on objects: copy, then change the two copied tubes in place.
ApplyMoveObj(h, refs, from_idx, to_idx, base) ==
    LET c == DeepCopyTubes(h, refs, base)
        r == ApplyMove(Deref(c.heap, c.refs), from_idx, to_idx)
    IN  IF r.raised
        THEN [raised |-> TRUE, heap |-> h, state |-> PuzzleState(refs)]
        ELSE [raised |-> FALSE,
              heap   |-> [c.heap EXCEPT ![c.refs[from_idx]] = r.tubes[from_idx],
                                        ![c.refs[to_idx]]   = r.tubes[to_idx]],
              state  |-> PuzzleState(c.refs)]

\* PuzzleState.serialize: the cached string when there is one.
Serialize(h, state) ==
    IF state.hash # "" THEN state.hash ELSE SerializeTubes(Deref(h, state.tubes))

(***************************************************************************)
(* get_valid_moves, would_complete_tube, prioritize_moves.                 *)
(***************************************************************************)
AllPairs(n) == [k \in 1..(n * n) |-> <<((k - 1) \div n) + 1, ((k - 1) % n) + 1>>]

\* Mutant of GetValidMoves: can_pour is not asked.
GetValidMovesUnchecked(ts) ==
    LET Keep(m) ==
            /\ ~(IsEmpty(ts[m[1]]) \/ IsComplete(ts[m[1]]))
            /\ m[1] # m[2]
            /\ ~(IsComplete(ts[m[2]]) /\ ~IsEmpty(ts[m[2]]))
    IN  SelectSeq(AllPairs(Len(ts)), Keep)

\* Mutant of GetValidMoves: a complete source tube is not skipped.
GetValidMovesCompleteSource(ts) ==
    LET Keep(m) ==
            /\ ~IsEmpty(ts[m[1]])
            /\ m[1] # m[2]
            /\ ~(IsComplete(ts[m[2]]) /\ ~IsEmpty(ts[m[2]]))
            /\ CanPour(ts[m[1]], ts[m[2]])
    IN  SelectSeq(AllPairs(Len(ts)), Keep)

GetValidMoves(ts) ==
    LET Keep(m) ==
            LET from_tube == ts[m[1]]
                to_tube   == ts[m[2]]
            IN  /\ ~(IsEmpty(from_tube) \/ IsComplete(from_tube))
                /\ ~(TopColor(from_tube) = None \/ TopColor(from_tube).color = EMPTY)
                /\ m[1] # m[2]
                /\ ~(IsComplete(to_tube) /\ ~IsEmpty(to_tube))
                /\ CanPour(from_tube, to_tube)
    IN  SelectSeq(AllPairs(Len(ts)), Keep)

\* Mutant of WouldCompleteTube: the colours below the destination's top are
\* not looked at.
WouldCompleteTubeTopOnly(ts, from_idx, to_idx) ==
    LET from_tube  == ts[from_idx]
        to_tube    == ts[to_idx]
        from_color == TopColor(from_tube)
        to_color   == TopColor(to_tube)
        non_empty  == SelectSeq(to_tube.segments, IsLiquid)
    IN  IF from_color = None THEN FALSE
        ELSE IF IsEmpty(to_tube) THEN from_color.height = to_tube.capacity_px
        ELSE IF to_color = None \/ to_color.color # from_color.color THEN FALSE
        ELSE SumHeights(non_empty) + from_color.height = to_tube.capacity_px

WouldCompleteTube(ts, from_idx, to_idx) ==
    LET from_tube  == ts[from_idx]
        to_tube    == ts[to_idx]
        from_color == TopColor(from_tube)
        to_color   == TopColor(to_tube)
        non_empty  == SelectSeq(to_tube.segments, IsLiquid)
    IN  IF from_color = None THEN FALSE
        ELSE IF IsEmpty(to_tube) THEN from_color.height = to_tube.capacity_px
        ELSE IF to_color = None \/ to_color.color # from_color.color THEN FALSE
        ELSE IF ~(\A i \in 1..Len(non_empty) : non_empty[i].color = from_color.color)
        THEN FALSE
        ELSE SumHeights(non_empty) + from_color.height = to_tube.capacity_px

\* The list (priority_1 .. priority_5) a move is appended to.
Priority(ts, m) ==
    LET from_tube == ts[m[1]]
        to_tube   == ts[m[2]]
    IN  IF WouldCompleteTube(ts, m[1], m[2]) THEN 1
        ELSE IF TopColor(to_tube) # None
                /\ TopColor(to_tube).color = TopColor(from_tube).color THEN 2
        ELSE IF IsEmpty(to_tube) /\ IsComplete(from_tube) THEN 3
        ELSE IF IsEmpty(to_tube) THEN 4
        ELSE 5

\* Mutant of PrioritizeMoves: consolidating moves come before completing ones.
PrioritizeMovesSameColorFirst(ts, moves) ==
    LET P1(m) == Priority(ts, m) = 1
        P2(m) == Priority(ts, m) = 2
        P3(m) == Priority(ts, m) = 3
        P4(m) == Priority(ts, m) = 4
        P5(m) == Priority(ts, m) = 5
    IN  SelectSeq(moves, P2) \o SelectSeq(moves, P1) \o SelectSeq(moves, P3)
        \o SelectSeq(moves, P4) \o SelectSeq(moves, P5)

PrioritizeMoves(ts, moves) ==
    LET P1(m) == Priority(ts, m) = 1
        P2(m) == Priority(ts, m) = 2
        P3(m) == Priority(ts, m) = 3
        P4(m) == Priority(ts, m) = 4
        P5(m) == Priority(ts, m) = 5
    IN  SelectSeq(moves, P1) \o SelectSeq(moves, P2) \o SelectSeq(moves, P3)
        \o SelectSeq(moves, P4) \o SelectSeq(moves, P5)

(***************************************************************************)
(* PuzzleState.from_detection and compute_execution_plan.                  *)
(***************************************************************************)
\* One entry of the detector's output: {'tube_index': i, 'colors': [...]}.
TubeData(i, colors) == [tube_index |-> i, colors |-> colors]

\* lines 91-112: every entry becomes a TubeState whose capacity is the sum of
\* its segment heights; nothing is tested, nothing is raised.
FromDetection(all_tube_colors) ==
    [raised |-> FALSE,
     tubes  |-> [k \in 1..Len(all_tube_colors) |->
                    TubeState(all_tube_colors[k].tube_index,
                              all_tube_colors[k].colors,
                              SumHeights(all_tube_colors[k].colors))]]

Max(a, b) == IF a >= b THEN a ELSE b

\* tube_last_used.get(i, 0.0)
LastUsed(tube_last_used, i) ==
    IF i \in DOMAIN tube_last_used THEN tube_last_used[i] ELSE 0

\* lines 419-435: the loop over moves, one iteration per call.
RECURSIVE PlanLoop(_, _, _, _, _)
PlanLoop(moves, animation_delay, tube_last_used, current_time, execution_plan) ==
    IF moves = <<>> THEN execution_plan
    ELSE LET from_idx == Head(moves)[1]
             to_idx   == Head(moves)[2]
             earliest_time == Max(LastUsed(tube_last_used, from_idx),
                                  LastUsed(tube_last_used, to_idx))
             delay    == Max(0, earliest_time - current_time)
             new_time == earliest_time + animation_delay
         IN  PlanLoop(Tail(moves), animation_delay,
                      [i \in DOMAIN tube_last_used \cup {from_idx, to_idx} |->
                          IF i \in {from_idx, to_idx} THEN new_time
                          ELSE tube_last_used[i]],
                      new_time,
                      Append(execution_plan, <<from_idx, to_idx, delay>>))

\* Times are whole units here; the code adds and compares floats.
ComputeExecutionPlan(moves, animation_delay) ==
    PlanLoop(moves, animation_delay, <<>>, 0, <<>>)

\* One iteration of the loop (lines 419-435) from the scheduler's variables
\* sched: the values of earliest_time and delay it computes and of
\* tube_last_used and current_time when it is over.
PlanStep(sched, move, animation_delay) ==
    LET earliest_time == Max(LastUsed(sched.tube_last_used, move[1]),
                             LastUsed(sched.tube_last_used, move[2]))
        new_time == earliest_time + animation_delay
    IN  [earliest_time |-> earliest_time,
         delay         |-> Max(0, earliest_time - sched.current_time),
         tube_last_used |->
             [i \in DOMAIN sched.tube_last_used \cup {move[1], move[2]} |->
                 IF i \in {move[1], move[2]} THEN new_time
                 ELSE sched.tube_last_used[i]],
         current_time  |-> new_time]

\* Mutant of PlanStates: only the destination tube is marked as used.
RECURSIVE PlanStatesDestOnly(_, _)
PlanStatesDestOnly(moves, animation_delay) ==
    IF moves = <<>> THEN <<>>
    ELSE LET before == PlanStatesDestOnly(SubSeq(moves, 1, Len(moves) - 1), animation_delay)
             sched  == IF before = <<>>
                       THEN [tube_last_used |-> <<>>, current_time |-> 0]
                       ELSE before[Len(before)]
             move   == moves[Len(moves)]
             step   == PlanStep(sched, <<move[2], move[2]>>, animation_delay)
         IN  Append(before,
                    [step EXCEPT !.earliest_time =
                        PlanStep(sched, move, animation_delay).earliest_time])

\* The scheduler's variables after each iteration of the loop over moves.
RECURSIVE PlanStates(_, _)
PlanStates(moves, animation_delay) ==
    IF moves = <<>> THEN <<>>
    ELSE LET before == PlanStates(SubSeq(moves, 1, Len(moves) - 1), animation_delay)
             sched  == IF before = <<>>
                       THEN [tube_last_used |-> <<>>, current_time |-> 0]
                       ELSE before[Len(before)]
         IN  Append(before, PlanStep(sched, moves[Len(moves)], animation_delay))

(***************************************************************************)
(* Inputs.  The puzzles solve is run on: the arrangements of NumTubes      *)
(* tubes of Capacity units in which each tube satisfies I1-I3 (positive    *)
(* heights summing to the capacity, no two adjacent segments of one label, *)
(* at most one empty segment and that one first).                          *)
(***************************************************************************)
I1(tube) == SumHeights(tube.segments) = tube.capacity_px

I2(tube) ==
    \A i \in 1..(Len(tube.segments) - 1) :
        tube.segments[i].color # tube.segments[i + 1].color

I3(tube) ==
    \A i \in 1..Len(tube.segments) : tube.segments[i].color = EMPTY => i = 1

SegLists(cap) ==
    UNION {[1..n -> {ColorSegment(c, h) : c \in Labels, h \in 1..cap}] : n \in 1..cap}

WellFormedSegs(cap) ==
    {segs \in SegLists(cap) :
        LET tube == TubeState(1, segs, cap) IN I1(tube) /\ I2(tube) /\ I3(tube)}

ColorTotal(ts, c) ==
    LET OfColor(seg) == seg.color = c
        RECURSIVE Sum(_)
        Sum(i) == IF i = 0 THEN 0
                  ELSE SumHeights(SelectSeq(ts[i].segments, OfColor)) + Sum(i - 1)
    IN  Sum(Len(ts))

RECURSIVE Column(_, _)
Column(ts, i) == IF i > Len(ts) THEN <<>> ELSE ts[i].segments \o Column(ts, i + 1)

\* The arrangements of n tubes of capacity cap, each satisfying I1-I3, in which
\* no colour holds more liquid than one tube can take.
RECURSIVE Arrangements(_, _)
Arrangements(n, cap) ==
    IF n = 0 THEN {<<>>}
    ELSE {ts \in {Append(p, TubeState(n, segs, cap)) :
                     p \in Arrangements(n - 1, cap), segs \in WellFormedSegs(cap)} :
             \A c \in Colors : ColorTotal(ts, c) <= cap}

\* Of the arrangements that differ only by renaming the colours (which the code
\* only compares), the one whose first liquid segment is red stands for all.
PuzzleFamily(n, cap) ==
    {ts \in Arrangements(n, cap) :
        LET col == Column(ts, 1)
            k   == FirstLiquidIdx(col)
        IN  k # 0 => col[k].color = "red"}

Puzzles == PuzzleFamily(NumTubes, Capacity)

\* create_simple_puzzle and create_already_solved_puzzle of test_solver.py,
\* heights in pixels.
SimplePuzzle ==
    <<TubeState(1, <<ColorSegment("red", 50), ColorSegment("blue", 50)>>, 100),
      TubeState(2, <<ColorSegment("blue", 50), ColorSegment("red", 50)>>, 100),
      TubeState(3, <<ColorSegment(EMPTY, 100)>>, 100)>>

AlreadySolvedPuzzle ==
    <<TubeState(1, <<ColorSegment("red", 100)>>, 100),
      TubeState(2, <<ColorSegment("blue", 100)>>, 100),
      TubeState(3, <<ColorSegment(EMPTY, 100)>>, 100)>>

\* A puzzle in quarter-tube units (25 pixels) that has a solution of five
\* moves: (1,0), (2,1), (0,2), (0,1), (0,2) in the code's 0-based positions.
QuarterPuzzle ==
    <<TubeState(1, <<ColorSegment(EMPTY, 25), ColorSegment("red", 25),
                     ColorSegment("blue", 25), ColorSegment("red", 25)>>, 100),
      TubeState(2, <<ColorSegment(EMPTY, 25), ColorSegment("red", 25),
                     ColorSegment("blue", 50)>>, 100),
      TubeState(3, <<ColorSegment(EMPTY, 50), ColorSegment("blue", 25),
                     ColorSegment("red", 25)>>, 100)>>

(***************************************************************************)
(* solve: the recursion of dfs as a call stack.  A frame is one dfs call:  *)
(* its arguments state, depth and path, the moves the for loop has still   *)
(* to try, and where the call stands: "enter" (line 281), "loop" (line     *)
(* 310, before the next move), "wait" (line 319, inside the recursive      *)
(* call).  With n tubes, the TubeState objects of the frame at stack        *)
(* position k live at addresses (k-1)*n+1 .. k*n; the caller's initial     *)
(* state is the first frame's and outlives the search.                     *)
(***************************************************************************)
Frame(state, depth, path) ==
    [state |-> state, depth |-> depth, path |-> path, moves |-> <<>>, pc |-> "enter"]

Top == stack[Len(stack)]

TopTubes == Deref(heap, Top.state.tubes)

Pending == [kind |-> "pending", path |-> <<>>]

ReturnNone == [kind |-> "none", path |-> <<>>]

ReturnPath(path) == [kind |-> "path", path |-> path]

Raised == [kind |-> "error", path |-> <<>>]

\* The objects left once the frames above position n are gone.
Release(h, n) ==
    LET keep == {a \in DOMAIN h : a <= n * Len(initial) \/ a <= Len(initial)}
    IN  [a \in keep |-> h[a]]

Pop == /\ stack' = SubSeq(stack, 1, Len(stack) - 1)
       /\ heap' = Release(heap, Len(stack) - 1)

\* max_depth of test_simple_solver and the default of solve's signature.
TestMaxDepth == 50
DefaultMaxDepth == 200

\* The calls solve(initial_state, max_depth) that are run.
SolveCalls ==
    ((Puzzles \cup {SimplePuzzle, AlreadySolvedPuzzle, QuarterPuzzle})
        \X (0..MaxDepthArg))
    \cup ({SimplePuzzle} \X {TestMaxDepth, DefaultMaxDepth})

InitSolve ==
    /\ \E c \in SolveCalls : initial = c[1] /\ max_depth = c[2]
    /\ heap = [a \in DOMAIN initial |-> initial[a]]
    /\ stack = <<Frame(PuzzleState([i \in DOMAIN initial |-> i]), 0, <<>>)>>
    /\ ret = Pending
    /\ visited = {}
    /\ states_explored = 0
    /\ tubes = <<>>
    /\ last = <<>>
    /\ call = <<>>

\* Mutant of DfsCheck: the depth limit lets one more move through.
DfsCheckDepthLoose(solved, depth, limit, seen) ==
    IF solved THEN "solved"
    ELSE IF depth > limit THEN "limit"
    ELSE IF seen THEN "visited"
    ELSE "expand"

\* Mutant of DfsCheck: the visited set is not consulted.
DfsCheckNoVisited(solved, depth, limit, seen) ==
    IF solved THEN "solved"
    ELSE IF depth >= limit THEN "limit"
    ELSE "expand"

\* Mutant of DfsCheck: the depth limit is tested before is_solved.
DfsCheckDepthFirst(solved, depth, limit, seen) ==
    IF depth >= limit THEN "limit"
    ELSE IF solved THEN "solved"
    ELSE IF seen THEN "visited"
    ELSE "expand"

\* lines 287-301: the order in which dfs tests the state it was called on.
DfsCheck(solved, depth, limit, seen) ==
    IF solved THEN "solved"
    ELSE IF depth >= limit THEN "limit"
    ELSE IF seen THEN "visited"
    ELSE "expand"

TopCheck ==
    DfsCheck(IsSolved(TopTubes), Top.depth, max_depth,
             Serialize(heap, Top.state) \in visited)

\* Mutant of ChildPath: the move is not added to the path.
ChildPathDropped(path, m) == path

\* line 319: the path handed to the recursive call.
ChildPath(path, m) == Append(path, m)

\* lines 281-291: the state is solved, return path.
DfsSolved ==
    /\ stack # <<>> /\ Top.pc = "enter"
    /\ TopCheck = "solved"
    /\ states_explored' = states_explored + 1
    /\ ret' = ReturnPath(Top.path)
    /\ Pop
    /\ UNCHANGED <<visited, initial, max_depth, tubes, last, call>>

\* lines 281-295: not solved and at the depth limit, return None.
DfsDepthLimit ==
    /\ stack # <<>> /\ Top.pc = "enter"
    /\ TopCheck = "limit"
    /\ states_explored' = states_explored + 1
    /\ ret' = ReturnNone
    /\ Pop
    /\ UNCHANGED <<visited, initial, max_depth, tubes, last, call>>

\* lines 281-300: the serialized state is in visited, return None.
DfsVisitedCut ==
    /\ stack # <<>> /\ Top.pc = "enter"
    /\ TopCheck = "visited"
    /\ states_explored' = states_explored + 1
    /\ ret' = ReturnNone
    /\ Pop
    /\ UNCHANGED <<visited, initial, max_depth, tubes, last, call>>

\* lines 281-307: a new state; record it and list its moves in priority order.
DfsExpand ==
    /\ stack # <<>> /\ Top.pc = "enter"
    /\ TopCheck = "expand"
    /\ LET state_hash == Serialize(heap, Top.state)
       IN  /\ visited' = visited \cup {state_hash}
           /\ stack' = [stack EXCEPT ![Len(stack)] =
                  [@ EXCEPT !.state.hash = state_hash,
                            !.moves = PrioritizeMoves(TopTubes, GetValidMoves(TopTubes)),
                            !.pc = "loop"]]
    /\ states_explored' = states_explored + 1
    /\ UNCHANGED <<heap, ret, initial, max_depth, tubes, last, call>>

\* Mutant of IsInverse: no move is ever pruned.
IsInverseNever(path, m) == FALSE

\* line 312: the move inverts the last move of path.
IsInverse(path, m) == Len(path) > 0 /\ path[Len(path)] = <<m[2], m[1]>>

\* Mutant of DfsSkipInverse: the skipped move stays at the head of the loop.
DfsSkipInverseStuck ==
    /\ stack # <<>> /\ Top.pc = "loop"
    /\ Top.moves # <<>>
    /\ IsInverse(Top.path, Head(Top.moves))
    /\ UNCHANGED vars

\* lines 310-313: the next move inverts the last move of path, skip it.
DfsSkipInverse ==
    /\ stack # <<>> /\ Top.pc = "loop"
    /\ Top.moves # <<>>
    /\ IsInverse(Top.path, Head(Top.moves))
    /\ stack' = [stack EXCEPT ![Len(stack)].moves = Tail(@)]
    /\ UNCHANGED <<heap, ret, visited, states_explored, initial, max_depth,
                   tubes, last, call>>

\* lines 310-319: apply the next move and call dfs on the new state.
DfsApplyMove ==
    /\ stack # <<>> /\ Top.pc = "loop"
    /\ Top.moves # <<>>
    /\ ~IsInverse(Top.path, Head(Top.moves))
    /\ LET m == Head(Top.moves)
           r == ApplyMoveObj(heap, Top.state.tubes, m[1], m[2], Len(stack) * Len(initial))
       IN  IF r.raised
           THEN /\ stack' = <<>>
                /\ heap' = Release(heap, 0)
                /\ ret' = Raised
           ELSE /\ heap' = r.heap
                /\ stack' = Append([stack EXCEPT ![Len(stack)] =
                                       [@ EXCEPT !.moves = Tail(@), !.pc = "wait"]],
                                   Frame(r.state, Top.depth + 1, ChildPath(Top.path, m)))
                /\ ret' = Pending
    /\ UNCHANGED <<visited, states_explored, initial, max_depth, tubes, last, call>>

\* Mutant of DfsChildSucceeded: the loop goes on after a successful call.
DfsChildSucceededIgnored ==
    /\ stack # <<>> /\ Top.pc = "wait"
    /\ ret.kind = "path"
    /\ stack' = [stack EXCEPT ![Len(stack)].pc = "loop"]
    /\ UNCHANGED <<heap, ret, visited, states_explored, initial, max_depth,
                   tubes, last, call>>

\* lines 320-321: the recursive call found a solution, return it.
DfsChildSucceeded ==
    /\ stack # <<>> /\ Top.pc = "wait"
    /\ ret.kind = "path"
    /\ Pop
    /\ UNCHANGED <<ret, visited, states_explored, initial, max_depth, tubes, last, call>>

\* line 320: the recursive call returned None, go on with the next move.
DfsChildFailed ==
    /\ stack # <<>> /\ Top.pc = "wait"
    /\ ret.kind = "none"
    /\ stack' = [stack EXCEPT ![Len(stack)].pc = "loop"]
    /\ UNCHANGED <<heap, ret, visited, states_explored, initial, max_depth,
                   tubes, last, call>>

\* Mutant of DfsExhausted: the state is taken out of visited on the way back.
DfsExhaustedUnvisit ==
    /\ stack # <<>> /\ Top.pc = "loop"
    /\ Top.moves = <<>>
    /\ ret' = ReturnNone
    /\ visited' = visited \ {Serialize(heap, Top.state)}
    /\ Pop
    /\ UNCHANGED <<states_explored, initial, max_depth, tubes, last, call>>

\* line 323: every move was tried, return None.
DfsExhausted ==
    /\ stack # <<>> /\ Top.pc = "loop"
    /\ Top.moves = <<>>
    /\ ret' = ReturnNone
    /\ Pop
    /\ UNCHANGED <<visited, states_explored, initial, max_depth, tubes, last, call>>

\* solve has returned (line 333) once the first dfs call has: its value is ret.
Returned == stack = <<>> /\ ret.kind # "pending"

Next ==
    \/ DfsSolved
    \/ DfsDepthLimit
    \/ DfsVisitedCut
    \/ DfsExpand
    \/ DfsSkipInverse
    \/ DfsApplyMove
    \/ DfsChildSucceeded
    \/ DfsChildFailed
    \/ DfsExhausted

Spec == InitSolve /\ [][Next]_vars

\* The calls on levels of the game, where every colour fills exactly one tube.
LiveCalls ==
    {c \in SolveCalls :
        \A col \in Colors : ColorTotal(c[1], col) = c[1][1].capacity_px}

InitLive ==
    /\ InitSolve
    /\ <<initial, max_depth>> \in LiveCalls

\* solve runs in one thread without suspending: a call that can take its next
\* step takes it.
SpecLive == InitLive /\ [][Next]_vars /\ WF_vars(Next)

(***************************************************************************)
(* Pouring directly: from a state whose tubes satisfy I1-I3, any move      *)
(* (from_idx, to_idx) of two distinct tubes that can_pour accepts is       *)
(* applied with apply_move.  last records the call that produced tubes,    *)
(* and in listed whether every move so far was one get_valid_moves lists.  *)
(***************************************************************************)
NoCall == [from_idx |-> 0, to_idx |-> 0, before |-> <<>>, listed |-> TRUE]

\* The move is in the list get_valid_moves returns for ts.
IsListed(ts, m) == \E i \in 1..Len(GetValidMoves(ts)) : GetValidMoves(ts)[i] = m

InitPour ==
    /\ tubes \in Puzzles
    /\ last = NoCall
    /\ heap = <<>>
    /\ stack = <<>>
    /\ ret = Pending
    /\ visited = {}
    /\ states_explored = 0
    /\ initial = <<>>
    /\ max_depth = 0
    /\ call = <<>>

Pour(from_idx, to_idx) ==
    /\ from_idx # to_idx
    /\ CanPour(tubes[from_idx], tubes[to_idx])
    /\ LET r == ApplyMove(tubes, from_idx, to_idx)
       IN  /\ ~r.raised
           /\ tubes' = r.tubes
    /\ last' = [from_idx |-> from_idx, to_idx |-> to_idx, before |-> tubes,
                listed |-> last.listed /\ IsListed(tubes, <<from_idx, to_idx>>)]
    /\ UNCHANGED <<solverVars, call>>

NextPour == \E from_idx, to_idx \in 1..NumTubes : Pour(from_idx, to_idx)

SpecPour == InitPour /\ [][NextPour]_vars

(***************************************************************************)
(* Single calls of the pure functions.  The tubes handed to can_pour and   *)
(* is_solved are the segment lists with positive heights summing to the    *)
(* capacity, no two adjacent segments of one label and at most one empty   *)
(* segment, wherever it lies; apply_move is called with any two distinct   *)
(* tube positions, valid move or not; get_valid_moves is called on the     *)
(* puzzles and on the states one pour away from them;                      *)
(* merge_consecutive_segments and from_detection get raw segment lists of  *)
(* any labels in any order; compute_execution_plan gets any list of moves. *)
(***************************************************************************)
TubeShapes(cap) ==
    {segs \in SegLists(cap) :
        LET tube == TubeState(1, segs, cap)
        IN  /\ I1(tube) /\ I2(tube)
            /\ Cardinality({i \in 1..Len(segs) : segs[i].color = EMPTY}) <= 1}

PourMoves == {m \in (1..NumTubes) \X (1..NumTubes) : m[1] # m[2]}

SegHeights == {1, 2}

RawSegLists ==
    UNION {[1..n -> {ColorSegment(c, h) : c \in Labels, h \in SegHeights}] :
              n \in 0..MaxSegs}

\* Detector output: one tube, alone or next to an empty tube of its size.
Snapshots ==
    {<<TubeData(1, a)>> : a \in RawSegLists}
    \cup {<<TubeData(1, a), TubeData(2, <<ColorSegment(EMPTY, SumHeights(a))>>)>> :
             a \in RawSegLists}

\* The states one valid pour away from a puzzle.
PouredOnce ==
    {ApplyMove(c[1], c[2][1], c[2][2]).tubes :
        c \in {x \in Puzzles \X PourMoves : CanPour(x[1][x[2][1]], x[1][x[2][2]])}}

MoveLists == UNION {[1..n -> PourMoves] : n \in 0..MaxPlanLen}

AnimationDelays == {1, 2}

InitCalls ==
    /\ \/ call \in {[fn |-> "merge_consecutive_segments", segments |-> a,
                     done |-> FALSE, out |-> <<>>] : a \in RawSegLists}
       \/ call \in {[fn |-> "from_detection", all_tube_colors |-> a,
                     done |-> FALSE, raised |-> FALSE, tubes |-> <<>>] :
                       a \in Snapshots}
       \/ call \in {[fn |-> "compute_execution_plan", moves |-> a,
                     animation_delay |-> d, done |-> FALSE, out |-> <<>>] :
                       a \in MoveLists, d \in AnimationDelays}
       \/ call \in {[fn |-> "is_solved",
                     state |-> <<TubeState(1, a, Capacity), TubeState(2, b, Capacity)>>,
                     done |-> FALSE, out |-> FALSE] :
                       a, b \in TubeShapes(Capacity)}
       \/ call \in {[fn |-> "get_valid_moves", state |-> ts,
                     done |-> FALSE, out |-> <<>>] :
                       ts \in Puzzles \cup PouredOnce}
       \/ /\ call \in {[fn |-> "can_pour",
                        from_tube |-> TubeState(1, a, Capacity),
                        to_tube |-> TubeState(2, b, Capacity),
                        done |-> FALSE, out |-> FALSE] :
                           a, b \in TubeShapes(Capacity)}
       \/ /\ call \in {[fn |-> "apply_move", state |-> ts,
                        from_idx |-> m[1], to_idx |-> m[2],
                        done |-> FALSE, raised |-> FALSE, new_state |-> <<>>] :
                           ts \in Puzzles, m \in PourMoves}
    /\ tubes = <<>>
    /\ last = NoCall
    /\ heap = <<>>
    /\ stack = <<>>
    /\ ret = Pending
    /\ visited = {}
    /\ states_explored = 0
    /\ initial = <<>>
    /\ max_depth = 0

CallCanPour ==
    /\ call.fn = "can_pour" /\ ~call.done
    /\ call' = [call EXCEPT !.done = TRUE,
                            !.out = CanPour(call.from_tube, call.to_tube)]
    /\ UNCHANGED <<solverVars, tubes, last>>

CallApplyMove ==
    /\ call.fn = "apply_move" /\ ~call.done
    /\ LET r == ApplyMove(call.state, call.from_idx, call.to_idx)
       IN  call' = [call EXCEPT !.done = TRUE,
                                !.raised = r.raised,
                                !.new_state = IF r.raised THEN <<>> ELSE r.tubes]
    /\ UNCHANGED <<solverVars, tubes, last>>

CallMergeConsecutiveSegments ==
    /\ call.fn = "merge_consecutive_segments" /\ ~call.done
    /\ call' = [call EXCEPT !.done = TRUE,
                            !.out = MergeConsecutiveSegments(call.segments)]
    /\ UNCHANGED <<solverVars, tubes, last>>

CallFromDetection ==
    /\ call.fn = "from_detection" /\ ~call.done
    /\ LET r == FromDetection(call.all_tube_colors)
       IN  call' = [call EXCEPT !.done = TRUE,
                                !.raised = r.raised,
                                !.tubes = IF r.raised THEN <<>> ELSE r.tubes]
    /\ UNCHANGED <<solverVars, tubes, last>>

CallComputeExecutionPlan ==
    /\ call.fn = "compute_execution_plan" /\ ~call.done
    /\ call' = [call EXCEPT !.done = TRUE,
                            !.out = ComputeExecutionPlan(call.moves, call.animation_delay)]
    /\ UNCHANGED <<solverVars, tubes, last>>

CallIsSolved ==
    /\ call.fn = "is_solved" /\ ~call.done
    /\ call' = [call EXCEPT !.done = TRUE, !.out = IsSolved(call.state)]
    /\ UNCHANGED <<solverVars, tubes, last>>

CallGetValidMoves ==
    /\ call.fn = "get_valid_moves" /\ ~call.done
    /\ call' = [call EXCEPT !.done = TRUE, !.out = GetValidMoves(call.state)]
    /\ UNCHANGED <<solverVars, tubes, last>>

NextCalls ==
    \/ CallCanPour
    \/ CallApplyMove
    \/ CallMergeConsecutiveSegments
    \/ CallFromDetection
    \/ CallComputeExecutionPlan
    \/ CallIsSolved
    \/ CallGetValidMoves

SpecCalls == InitCalls /\ [][NextCalls]_vars

(***************************************************************************)
(* Properties of solve (specification Spec).                               *)
(***************************************************************************)
\* The moves replayed with apply_move from ts; raised when a move is refused.
RECURSIVE Replay(_, _)
Replay(ts, moves) ==
    IF moves = <<>> THEN [raised |-> FALSE, tubes |-> ts]
    ELSE LET r == ApplyMove(ts, Head(moves)[1], Head(moves)[2])
         IN  IF r.raised THEN r ELSE Replay(r.tubes, Tail(moves))

\* C1: when solve returns a list of moves, applying them in order with
\* apply_move from the initial state yields a state for which is_solved holds.
C1_SolutionValid ==
    (Returned /\ ret.kind = "path") =>
        LET r == Replay(initial, ret.path)
        IN  ~r.raised /\ IsSolved(r.tubes)

C1_Witness == Returned /\ ret.kind = "path" /\ Len(ret.path) >= 3

\* C5: apply_move leaves the state it is called on as it was: in every step of
\* the search, every state on the search path (every frame that stays on the
\* stack, whichever branch dfs is exploring) has the same tube objects holding
\* the same segment lists, and serializes to the same string, before and after
\* the step; and the caller's initial state always holds the segment lists
\* solve was called with.
C5_ApplyMovePure ==
    /\ [](\A i \in DOMAIN initial : heap[i] = initial[i])
    /\ [][\A k \in 1..Len(stack) : k <= Len(stack') =>
            /\ stack'[k].state.tubes = stack[k].state.tubes
            /\ Deref(heap', stack'[k].state.tubes) = Deref(heap, stack[k].state.tubes)
            /\ Serialize(heap', stack'[k].state) = Serialize(heap, stack[k].state)]_vars

\* dfs is back in an earlier state of the path after a branch below it failed,
\* and that state still differs from the state its move had produced.
C5_Witness ==
    /\ Len(stack) >= 2
    /\ Top.pc = "loop" /\ ret.kind = "none"
    /\ Top.moves # <<>>
    /\ TopTubes # Deref(heap, stack[Len(stack) - 1].state.tubes)

\* C6: solve returns the empty move list exactly when the initial state is
\* already solved; for a solved initial state it never returns None.
C6_EmptyIffSolved ==
    Returned =>
        /\ ret.kind \in {"path", "none"}
        /\ (ret.kind = "path" /\ ret.path = <<>>) <=> IsSolved(initial)
        /\ IsSolved(initial) => ret.kind # "none"

C6_Witness ==
    /\ Returned /\ IsSolved(initial) /\ max_depth = 0
    /\ ret = ReturnPath(<<>>)
    /\ \E i \in DOMAIN initial : ~IsEmpty(initial[i])

\* C7: in a returned move list no move is immediately followed by its inverse.
C7_NoInversePair ==
    (Returned /\ ret.kind = "path") =>
        \A i \in 1..(Len(ret.path) - 1) :
            ret.path[i + 1] # <<ret.path[i][2], ret.path[i][1]>>

C7_Witness ==
    /\ Returned /\ ret.kind = "path" /\ Len(ret.path) >= 2
    /\ \E i \in 1..(Len(ret.path) - 1) : ret.path[i + 1][1] = ret.path[i][2]

\* Some sequence of at most n moves, each one of get_valid_moves of the state
\* it is applied to, leads from ts to a solved state.
RECURSIVE SolvableWithin(_, _)
SolvableWithin(ts, n) ==
    \/ IsSolved(ts)
    \/ /\ n > 0
       /\ \E i \in 1..Len(GetValidMoves(ts)) :
             LET m == GetValidMoves(ts)[i]
             IN  SolvableWithin(ApplyMove(ts, m[1], m[2]).tubes, n - 1)

\* C21: when solve(initial, max_depth) returns None, no sequence of at most
\* max_depth moves, each taken from get_valid_moves of the state it is applied
\* to, leads from the initial state to a solved state.
C21_NoneMeansNoSolution ==
    (Returned /\ ret.kind = "none" /\ max_depth <= MaxDepthArg) =>
        ~SolvableWithin(initial, max_depth)

\* C22: during a solve run the visited set only grows: a serialization, once
\* inserted, is never removed, also not when dfs backtracks out of the state.
C22_VisitedOnlyGrows == [][visited \subseteq visited']_vars

\* dfs has backtracked out of a state it had inserted.
C22_Witness ==
    /\ stack # <<>> /\ Top.pc = "loop" /\ ret.kind = "none"
    /\ Cardinality(visited) > Len(stack)

\* C23: each serialization is expanded at most once: dfs generates the moves of
\* a state only when its serialization is not yet in visited, inserting it; and
\* on a non-solved state whose serialization is already in visited it returns
\* None without generating or applying any move.
C23_ExpandedAtMostOnce ==
    [][(stack # <<>> /\ Top.pc = "enter") =>
          LET state_hash == Serialize(heap, Top.state)
              expanded   == /\ Len(stack') = Len(stack)
                            /\ stack'[Len(stack)].pc = "loop"
          IN  /\ expanded => (state_hash \notin visited /\ state_hash \in visited')
              /\ (~IsSolved(TopTubes) /\ state_hash \in visited) =>
                    /\ ret' = ReturnNone
                    /\ stack' = SubSeq(stack, 1, Len(stack) - 1)
                    /\ visited' = visited
                    /\ DOMAIN heap' \subseteq DOMAIN heap]_vars

\* dfs is called on a non-solved, already visited state with depth to spare.
C23_Witness ==
    /\ stack # <<>> /\ Top.pc = "enter"
    /\ ~IsSolved(TopTubes)
    /\ Serialize(heap, Top.state) \in visited
    /\ Top.depth < max_depth

\* C24: dfs tests solved, then the depth limit, then visited: a solved state
\* is accepted and its path returned whatever its depth and whether or not its
\* serialization is in visited, and a non-solved state at depth >= max_depth is
\* rejected without being inserted into visited.
C24_CheckOrder ==
    [][(stack # <<>> /\ Top.pc = "enter") =>
          /\ IsSolved(TopTubes) =>
                (ret' = ReturnPath(Top.path) /\ visited' = visited)
          /\ (~IsSolved(TopTubes) /\ Top.depth >= max_depth) =>
                /\ ret' = ReturnNone
                /\ visited' = visited
                /\ stack' = SubSeq(stack, 1, Len(stack) - 1)]_vars

\* dfs is called on a solved state at depth exactly max_depth.
C24_Witness ==
    /\ stack # <<>> /\ Top.pc = "enter"
    /\ IsSolved(TopTubes)
    /\ max_depth >= 1 /\ Top.depth = max_depth

\* C25: once a dfs call has found a solved state, every further step only
\* returns from a call: nothing is expanded, no move is applied, nothing is
\* inserted into visited, and the value handed up is the path of moves that
\* leads from the initial state to that solved state.
C25_FirstSuccessShortCircuit ==
    [][/\ ret.kind = "path" =>
            /\ ret' = ret
            /\ visited' = visited
            /\ states_explored' = states_explored
            /\ stack' = SubSeq(stack, 1, Len(stack) - 1)
       /\ (ret.kind # "path" /\ ret'.kind = "path") =>
            /\ ret'.path = Top.path
            /\ Replay(initial, ret'.path).tubes = TopTubes]_vars

\* A solution is on its way up while callers still have untried moves.
C25_Witness ==
    /\ ret.kind = "path" /\ Len(stack) >= 2
    /\ \E k \in 1..Len(stack) : stack[k].moves # <<>>

\* C26: solve terminates, returning a move list or None.
C26_SolveTerminates == <>(Returned /\ ret.kind \in {"path", "none"})

\* solve has returned None after a search of some length.
C26_Witness == Returned /\ ret.kind = "none" /\ states_explored >= 10

\* The tier of a move as prioritize_moves' docstring numbers them, from 0.
Tier(ts, m) ==
    LET from_tube == ts[m[1]]
        to_tube   == ts[m[2]]
    IN  CASE WouldCompleteTube(ts, m[1], m[2]) -> 0
          [] OTHER ->
        CASE TopColor(to_tube) # None
             /\ TopColor(to_tube).color = TopColor(from_tube).color -> 1
          [] OTHER ->
        CASE IsEmpty(to_tube) /\ IsComplete(from_tube) -> 2
          [] OTHER ->
        CASE IsEmpty(to_tube) -> 3
          [] OTHER -> 4

Occurrences(seq, m) == Cardinality({i \in 1..Len(seq) : seq[i] = m})

\* out is moves reordered: nothing dropped, added or duplicated, lower tiers
\* first, input order kept inside a tier.
IsPrioritized(ts, moves, out) ==
    /\ Len(out) = Len(moves)
    /\ \A m \in {moves[i] : i \in 1..Len(moves)} :
          Occurrences(out, m) = Occurrences(moves, m)
    /\ \A i \in 1..(Len(out) - 1) : Tier(ts, out[i]) <= Tier(ts, out[i + 1])
    /\ \A k \in 0..4 :
          LET InTier(m) == Tier(ts, m) = k
          IN  SelectSeq(out, InTier) = SelectSeq(moves, InTier)

\* Every pair of tube positions whose source holds liquid, move or not, in
\* generation order and then in the opposite order (each pair twice).
AnyMoves(ts) ==
    LET HasTop(m) == TopColor(ts[m[1]]) # None
        pairs == SelectSeq(AllPairs(Len(ts)), HasTop)
    IN  pairs \o [i \in 1..Len(pairs) |-> pairs[Len(pairs) + 1 - i]]

C29_CompleteToEmptyOffered ==
    [][(stack # <<>> /\ Top.pc = "enter" /\ Len(stack') = Len(stack)
        /\ stack'[Len(stack)].pc = "loop")
       => \A m \in PourMoves :
             (IsComplete(TopTubes[m[1]]) /\ ~IsEmpty(TopTubes[m[1]])
              /\ IsEmpty(TopTubes[m[2]]))
             => \E i \in 1..Len(stack'[Len(stack)].moves) :
                    stack'[Len(stack)].moves[i] = m
    ]_vars

\* The tubes of the state the dfs call at stack position k was given.
FrameTubes(k) == Deref(heap, stack[k].state.tubes)

\* The liquid column of every tube: its non-empty segments, top to bottom.
Columns(ts) == [i \in 1..Len(ts) |-> SelectSeq(ts[i].segments, IsLiquid)]

\* C33: the visited-set key is canonical for arrangements: any two states of
\* one solve run (here the states of the dfs calls in progress, all reached
\* from the same initial state) in which every tube holds the same liquid
\* column have the same serialize() string.
C33_SameColumnsSameKey ==
    \A i, j \in 1..Len(stack) :
        Columns(FrameTubes(i)) = Columns(FrameTubes(j))
            => SerializeTubes(FrameTubes(i)) = SerializeTubes(FrameTubes(j))

\* C13: on create_simple_puzzle's state (A = red 50 over blue 50, B = blue 50
\* over red 50, C = empty 100) solve with max_depth 50 and with the default 200
\* returns a non-empty move list, and after applying it every tube is complete:
\* one holds red 100, one holds blue 100 and one is entirely empty.
C13_SimplePuzzleSolved ==
    (Returned /\ initial = SimplePuzzle
        /\ max_depth \in {TestMaxDepth, DefaultMaxDepth}) =>
        /\ ret.kind = "path"
        /\ ret.path # <<>>
        /\ LET r == Replay(initial, ret.path)
               Holds(i, c) ==
                   r.tubes[i].segments = <<ColorSegment(c, r.tubes[i].capacity_px)>>
           IN  /\ ~r.raised
               /\ \A i \in DOMAIN r.tubes : IsComplete(r.tubes[i])
               /\ \E i, j, k \in DOMAIN r.tubes :
                     /\ {i, j, k} = DOMAIN r.tubes
                     /\ Holds(i, "red") /\ Holds(j, "blue") /\ Holds(k, EMPTY)

C13_Witness ==
    /\ Returned /\ initial = SimplePuzzle /\ max_depth = DefaultMaxDepth
    /\ Len(ret.path) >= 3

\* C14: a move list returned by solve(initial, max_depth) has at most max_depth
\* moves; on create_simple_puzzle's state with max_depth 1 solve returns None.
C14_PathWithinMaxDepth ==
    Returned =>
        /\ ret.kind = "path" => Len(ret.path) <= max_depth
        /\ (initial = SimplePuzzle /\ max_depth = 1) => ret = ReturnNone

\* A solution that uses all of the max_depth moves it was allowed.
C14_Witness ==
    /\ Returned /\ ret.kind = "path"
    /\ max_depth >= 2 /\ Len(ret.path) = max_depth

\* C20: every apply_move call dfs makes is for a move (f, t) of two different
\* tubes for which can_pour holds in the state being expanded, and apply_move
\* never raises during a search.
C20_DfsMovesAreValid ==
    /\ ret.kind # "error"
    /\ (stack # <<>> /\ Top.pc = "loop") =>
          \A i \in 1..Len(Top.moves) :
              LET m == Top.moves[i]
              IN  /\ m[1] # m[2]
                  /\ m[1] \in DOMAIN TopTubes /\ m[2] \in DOMAIN TopTubes
                  /\ CanPour(TopTubes[m[1]], TopTubes[m[2]])
                  /\ ~ApplyMove(TopTubes, m[1], m[2]).raised

\* dfs is about to apply a move in a state that itself came from apply_move,
\* after an earlier branch of that state failed.
C20_Witness ==
    /\ Len(stack) >= 2 /\ Top.pc = "loop" /\ Top.moves # <<>>
    /\ ret.kind = "none"
    /\ ~IsInverse(Top.path, Head(Top.moves))

(***************************************************************************)
(* Properties of apply_move on the states reached by pouring               *)
(* (specification SpecPour).                                               *)
(***************************************************************************)
Poured == last.from_idx # 0

Liquid(tube) == SelectSeq(tube.segments, IsLiquid)

\* Total height of the segments of tube labelled c.
Amount(tube, c) ==
    LET OfColor(seg) == seg.color = c
    IN  SumHeights(SelectSeq(tube.segments, OfColor))

\* C2: every tube has at most one segment labelled 'empty', and if present it
\* is the first (topmost) segment, never below or between liquid segments.
C2_EmptyOnlyOnTop ==
    \A i \in DOMAIN tubes :
        \A k \in 1..Len(tubes[i].segments) :
            tubes[i].segments[k].color = EMPTY => k = 1

\* C3: the sum of all segment heights (empty included) of every tube equals
\* that tube's capacity_px.
C3_HeightsSumToCapacity ==
    \A i \in DOMAIN tubes : SumHeights(tubes[i].segments) = tubes[i].capacity_px

\* A pour that left free space in the destination and took the source's only
\* liquid.
C3_Witness ==
    /\ Poured
    /\ Amount(tubes[last.to_idx], EMPTY) > 0
    /\ Liquid(tubes[last.from_idx]) = <<>>
    /\ Len(Liquid(tubes[last.to_idx])) >= 2

\* C4: no tube has two adjacent segments with the same label.
C4_NoAdjacentSameLabel ==
    \A i \in DOMAIN tubes :
        \A k \in 1..(Len(tubes[i].segments) - 1) :
            tubes[i].segments[k].color # tubes[i].segments[k + 1].color

\* A pour out of a tube that already had empty space on top (the freed space
\* had to be merged with it) into a tube that had the colour on top.
C4_Witness ==
    /\ Poured
    /\ last.before[last.from_idx].segments[1].color = EMPTY
    /\ Liquid(last.before[last.to_idx]) # <<>>

\* C9: a pour removes only the first non-empty segment of the source (height
\* h): the liquid segments below it keep colour, height and order, the source's
\* available space grows by h, and in the destination the amount of the poured
\* colour grows by h while its available space shrinks by h.
C9_PourMovesTopSegment ==
    Poured =>
        LET src_before == last.before[last.from_idx]
            dst_before == last.before[last.to_idx]
            src_after  == tubes[last.from_idx]
            dst_after  == tubes[last.to_idx]
            top        == Head(Liquid(src_before))
        IN  /\ Liquid(src_after) = Tail(Liquid(src_before))
            /\ AvailableSpacePx(src_after) = AvailableSpacePx(src_before) + top.height
            /\ Amount(dst_after, top.color) = Amount(dst_before, top.color) + top.height
            /\ AvailableSpacePx(dst_after) = AvailableSpacePx(dst_before) - top.height

\* The source held a deeper segment of the colour that was poured.
C9_Witness ==
    /\ Poured
    /\ LET liquid == Liquid(last.before[last.from_idx])
       IN  \E k \in 2..Len(liquid) : liquid[k].color = liquid[1].color

\* C18: a pour transfers the source's whole topmost run of liquid: in every
\* state reached from an initial state satisfying I1-I3 through moves that
\* get_valid_moves lists, right after apply_move(f, t) the top colour of tube
\* f, if it has one, differs from the colour that was poured.
C18_WholeTopRunPoured ==
    (Poured /\ last.listed) =>
        LET poured == TopColor(last.before[last.from_idx])
            top    == TopColor(tubes[last.from_idx])
        IN  top # None => top.color # poured.color

\* C28: would_complete_tube agrees with the real outcome: in every state
\* reached by pours and for every pair of distinct tubes (f, t) that can_pour
\* accepts, would_complete_tube(state, f, t) is true exactly when tube t is
\* complete in the state apply_move(f, t) returns.
C28_WouldCompleteAgrees ==
    \A m \in PourMoves :
        CanPour(tubes[m[1]], tubes[m[2]]) =>
            (WouldCompleteTube(tubes, m[1], m[2])
                <=> IsComplete(ApplyMove(tubes, m[1], m[2]).tubes[m[2]]))

\* After a pour, one move would complete a tube that already holds liquid and
\* another fills a tube of mixed colours to the brim without completing it.
C28_Witness ==
    /\ Poured
    /\ \E m \in PourMoves :
          /\ CanPour(tubes[m[1]], tubes[m[2]])
          /\ ~IsEmpty(tubes[m[2]])
          /\ WouldCompleteTube(tubes, m[1], m[2])
    /\ \E m \in PourMoves :
          /\ CanPour(tubes[m[1]], tubes[m[2]])
          /\ AvailableSpacePx(tubes[m[2]]) = TopColor(tubes[m[1]]).height
          /\ ~WouldCompleteTube(tubes, m[1], m[2])

\* C30: liquid is conserved: a pour that can_pour accepts leaves the total
\* height of every colour other than 'empty', summed over all tubes, as it
\* was; so the totals are those of the initial state in every state reached.
C30_LiquidConserved ==
    [][\A c \in Colors : ColorTotal(tubes', c) = ColorTotal(tubes, c)]_vars

\* The pour went onto liquid of its colour and took all the free space.
C30_Witness ==
    /\ Poured
    /\ LET dst_before == last.before[last.to_idx]
           top        == TopColor(last.before[last.from_idx])
       IN  /\ Liquid(dst_before) # <<>>
           /\ AvailableSpacePx(dst_before) = top.height
           /\ \E c \in Colors : c # top.color /\ ColorTotal(tubes, c) > 0

\* new is old with at most the tubes at positions f and t changed, and those
\* only in their segments.
OnlyPouredTubesChanged(old, new, f, t) ==
    /\ Len(new) = Len(old)
    /\ \A i \in 1..Len(old) :
          /\ new[i].tube_index = old[i].tube_index
          /\ new[i].capacity_px = old[i].capacity_px
          /\ i \notin {f, t} => new[i].segments = old[i].segments

\* apply_move(f, t) called on the PuzzleState object whose tubes are ts.
ApplyMoveOn(ts, f, t) ==
    ApplyMoveObj(ts, [i \in 1..Len(ts) |-> i], f, t, Len(ts))

\* C31: apply_move(f, t) changes only tubes f and t: whenever it returns a
\* state, valid move or not, that state has as many tubes as the old one, in
\* the same order, each with its tube_index and capacity_px, and every tube
\* other than f and t has the segment list it had.  This holds of the pour
\* that produced the current state and of every call on the current state.
C31_OnlyPouredTubesChange ==
    /\ Poured => OnlyPouredTubesChanged(last.before, tubes, last.from_idx, last.to_idx)
    /\ \A f, t \in 1..Len(tubes) :
          LET r == ApplyMoveOn(tubes, f, t)
          IN  ~r.raised =>
                  OnlyPouredTubesChanged(tubes, Deref(r.heap, r.state.tubes), f, t)

\* After a pour, the three tubes differ in their contents and apply_move also
\* returns a state for a move can_pour refuses.
C31_Witness ==
    /\ Poured
    /\ \A i, j \in 1..Len(tubes) : i # j => tubes[i].segments # tubes[j].segments
    /\ \E f, t \in 1..Len(tubes) :
          /\ f # t
          /\ ~CanPour(tubes[f], tubes[t])
          /\ ~ApplyMoveOn(tubes, f, t).raised
          /\ Deref(ApplyMoveOn(tubes, f, t).heap, ApplyMoveOn(tubes, f, t).state.tubes)
             # tubes

(***************************************************************************)
(* Properties of single calls (specification SpecCalls).                   *)
(***************************************************************************)
\* C8: can_pour(from, to) is true exactly when (a) from has a non-empty
\* segment, (b) the free space of to is at least the height of from's first
\* non-empty segment, and (c) to has no liquid or its first non-empty segment
\* has the colour of from's; so it is false for a differently coloured
\* destination and for a destination with no free space.
C8_CanPourIff ==
    (call.fn = "can_pour" /\ call.done) =>
        LET from_liquid == Liquid(call.from_tube)
            to_liquid   == Liquid(call.to_tube)
            space       == Amount(call.to_tube, EMPTY)
            a == from_liquid # <<>>
            b == a /\ space >= from_liquid[1].height
            c == a /\ (to_liquid = <<>> \/ to_liquid[1].color = from_liquid[1].color)
        IN  /\ call.out <=> (a /\ b /\ c)
            /\ (a /\ to_liquid # <<>> /\ to_liquid[1].color # from_liquid[1].color)
                  => ~call.out
            /\ space = 0 => ~call.out

\* can_pour accepted a pour that exactly fills a destination holding that colour.
C8_Witness ==
    /\ call.fn = "can_pour" /\ call.done /\ call.out
    /\ Liquid(call.to_tube) # <<>>
    /\ Amount(call.to_tube, EMPTY) = Head(Liquid(call.from_tube)).height

\* C10: apply_move(f, t) fails with an error and returns no new state whenever
\* can_pour(tubes[f], tubes[t]) is false in the state it is called on.
C10_InvalidMoveRaises ==
    (call.fn = "apply_move" /\ call.done
        /\ ~CanPour(call.state[call.from_idx], call.state[call.to_idx]))
    => (call.raised /\ call.new_state = <<>>)

\* C11: building a puzzle state from a detector snapshot in which some tube
\* has two adjacent segments of one colour, more than one empty segment or an
\* empty segment below liquid (I2 or I3 violated; from_detection takes each
\* tube's capacity to be the sum of its heights) is rejected with an error.
C11_MalformedSnapshotRejected ==
    (call.fn = "from_detection" /\ call.done
        /\ \E k \in 1..Len(call.all_tube_colors) :
              LET colors == call.all_tube_colors[k].colors
              IN  \/ \E i \in 1..(Len(colors) - 1) : colors[i].color = colors[i + 1].color
                  \/ \E i \in 2..Len(colors) : colors[i].color = EMPTY)
    => (call.raised /\ call.tubes = <<>>)

\* Start time of plan entry i for an executor that waits each entry's delay
\* and then issues the move: the sum of the delays of entries 1..i.
RECURSIVE StartTime(_, _)
StartTime(plan, i) == IF i = 0 THEN 0 ELSE plan[i][3] + StartTime(plan, i - 1)

\* C12: in the plan compute_execution_plan(moves, d) returns, every move starts
\* no earlier than d after the start of the nearest earlier move that uses one
\* of its two tubes.
C12_PlanRespectsAnimation ==
    (call.fn = "compute_execution_plan" /\ call.done) =>
        /\ Len(call.out) = Len(call.moves)
        /\ \A i \in 1..Len(call.out) :
              LET Shares(j) == {call.moves[j][1], call.moves[j][2]}
                                  \cap {call.moves[i][1], call.moves[i][2]} # {}
                  earlier == {j \in 1..(i - 1) : Shares(j)}
              IN  \A j \in earlier :
                      (\A k \in earlier : k <= j) =>
                          StartTime(call.out, i)
                              >= StartTime(call.out, j) + call.animation_delay

\* C32: in compute_execution_plan each tube is a single-occupancy resource on
\* the scheduler's own timeline: the earliest_time computed for a move is at
\* least earliest_time + animation_delay of every earlier move of the list
\* that uses one of its two tubes, no tube's entry in tube_last_used ever
\* decreases from one iteration to the next, and every delay in the returned
\* plan is >= 0.  The returned plan holds the moves with the delays the
\* iterations computed.
C32_TubesSingleOccupancy ==
    (call.fn = "compute_execution_plan" /\ call.done) =>
        LET sched == PlanStates(call.moves, call.animation_delay)
            Uses(j, i) == {call.moves[j][1], call.moves[j][2]}
                             \cap {call.moves[i][1], call.moves[i][2]} # {}
        IN  /\ Len(call.out) = Len(call.moves)
            /\ \A i \in 1..Len(call.moves) :
                  /\ call.out[i] = <<call.moves[i][1], call.moves[i][2], sched[i].delay>>
                  /\ call.out[i][3] >= 0
                  /\ \A j \in 1..(i - 1) :
                        Uses(j, i) =>
                            sched[i].earliest_time
                                >= sched[j].earliest_time + call.animation_delay
                  /\ \A x \in 1..NumTubes :
                        LastUsed(sched[i].tube_last_used, x)
                            >= (IF i = 1 THEN 0
                                ELSE LastUsed(sched[i - 1].tube_last_used, x))

\* A plan of three different moves, the last scheduled later than one
\* animation after the first.
C32_Witness ==
    /\ call.fn = "compute_execution_plan" /\ call.done
    /\ Len(call.moves) = 3
    /\ \A i, j \in 1..3 : i # j => call.moves[i] # call.moves[j]
    /\ LET sched == PlanStates(call.moves, call.animation_delay)
       IN  sched[3].earliest_time > sched[1].earliest_time + call.animation_delay

\* C15: merge_consecutive_segments is idempotent: merging its output again
\* gives the same list, and a list without two adjacent segments of one colour
\* comes back equal.
C15_MergeIdempotent ==
    (call.fn = "merge_consecutive_segments" /\ call.done) =>
        /\ MergeConsecutiveSegments(call.out) = call.out
        /\ (\A i \in 1..(Len(call.segments) - 1) :
                call.segments[i].color # call.segments[i + 1].color)
           => call.out = call.segments

\* The input had a run of three segments of one colour and a second run.
C15_Witness ==
    /\ call.fn = "merge_consecutive_segments" /\ call.done
    /\ Len(call.segments) >= 3 /\ Len(call.out) = 1

\* C16: merge_consecutive_segments(s) is the run-length merge of s: no two
\* adjacent output segments have one colour, the runs keep their order, and
\* each output segment's height is the sum of the heights of the maximal run of
\* equal-coloured adjacent input segments it replaces, so the total height and
\* the total of each colour are unchanged.
C16_MergeIsRunLength ==
    (call.fn = "merge_consecutive_segments" /\ call.done) =>
        LET in     == call.segments
            out    == call.out
            starts == {i \in 1..Len(in) : i = 1 \/ in[i].color # in[i - 1].color}
            \* the k-th run of in: from its start to the position before the next
            StartOf(k) == CHOOSE i \in starts :
                              Cardinality({j \in starts : j < i}) = k - 1
            EndOf(k)   == IF k = Cardinality(starts) THEN Len(in)
                          ELSE StartOf(k + 1) - 1
        IN  /\ Len(out) = Cardinality(starts)
            /\ \A k \in 1..Len(out) :
                  /\ out[k].color = in[StartOf(k)].color
                  /\ out[k].height = SumHeights(SubSeq(in, StartOf(k), EndOf(k)))
            /\ \A k \in 1..(Len(out) - 1) : out[k].color # out[k + 1].color
            /\ SumHeights(out) = SumHeights(in)
            /\ \A c \in Labels :
                  Amount([segments |-> out], c) = Amount([segments |-> in], c)

\* Two runs, the second one of two segments of different heights.
C16_Witness ==
    /\ call.fn = "merge_consecutive_segments" /\ call.done
    /\ Len(call.segments) = 3 /\ Len(call.out) = 2
    /\ call.segments[2].color = call.segments[3].color
    /\ call.segments[2].height # call.segments[3].height

\* C17: is_solved is true exactly when every tube is complete, a tube being
\* complete when it holds no liquid or its liquid is of one colour and as high
\* as capacity_px; a tube partly filled with one colour is not complete, and a
\* colour need not be gathered in a single tube.
C17_SolvedIffAllComplete ==
    (call.fn = "is_solved" /\ call.done) =>
        LET ColorsIn(tube) == {Liquid(tube)[i].color : i \in 1..Len(Liquid(tube))}
            Filled(tube)   == tube.capacity_px - Amount(tube, EMPTY)
            Complete(tube) ==
                \/ ColorsIn(tube) = {}
                \/ Cardinality(ColorsIn(tube)) = 1
                   /\ \A c \in ColorsIn(tube) : Amount(tube, c) = tube.capacity_px
            PartlyOneColor(tube) ==
                Cardinality(ColorsIn(tube)) = 1 /\ Filled(tube) < tube.capacity_px
        IN  /\ call.out <=> \A i \in DOMAIN call.state : Complete(call.state[i])
            /\ (\E i \in DOMAIN call.state : PartlyOneColor(call.state[i])) => ~call.out

\* Solved with the same colour filling two tubes.
C17_Witness ==
    /\ call.fn = "is_solved" /\ call.done /\ call.out
    /\ \A i \in DOMAIN call.state :
          call.state[i].segments = <<ColorSegment("red", Capacity)>>

\* C19: get_valid_moves returns exactly the pairs (f, t) of tube positions with
\* f # t, tube f neither empty nor complete, tube t not a complete non-empty
\* tube, and can_pour(tube f, tube t); each such pair once, and no other pair.
C19_ValidMovesExact ==
    (call.fn = "get_valid_moves" /\ call.done) =>
        LET ts == call.state
            expected ==
                {m \in (DOMAIN ts) \X (DOMAIN ts) :
                    /\ m[1] # m[2]
                    /\ ~IsEmpty(ts[m[1]]) /\ ~IsComplete(ts[m[1]])
                    /\ ~(IsComplete(ts[m[2]]) /\ ~IsEmpty(ts[m[2]]))
                    /\ CanPour(ts[m[1]], ts[m[2]])}
        IN  /\ {call.out[i] : i \in 1..Len(call.out)} = expected
            /\ Len(call.out) = Cardinality(expected)

\* Moves were returned from a state in which a complete tube could be poured
\* into an empty one and was passed over.
C19_Witness ==
    /\ call.fn = "get_valid_moves" /\ call.done /\ call.out # <<>>
    /\ \E f, t \in DOMAIN call.state :
          /\ f # t
          /\ IsComplete(call.state[f]) /\ ~IsEmpty(call.state[f])
          /\ CanPour(call.state[f], call.state[t])

====
